---- MODULE Spec2Model ----
(***************************************************************************)
(* Automation & Analytics Engine of the school management backend:         *)
(* the fee reminder engine and its ledger (fee_reminder_service.py), the   *)
(* payment path that changes an obligation (payments.py, fee_service.py),  *)
(* and the analytics result cache (analytics_service.py, scheduler.py).    *)
(*                                                                         *)
(* Time: `now` counts clock ticks; a day has TicksPerDay ticks.            *)
(* datetime.utcnow() is `now`, date.today() is now \div TicksPerDay.       *)
(* Dates are day numbers, so date arithmetic is integer arithmetic.        *)
(***************************************************************************)
EXTENDS Integers, Sequences, FiniteSets, TLC

VARIABLES
    now,            \* the clock, in ticks
    fees,           \* monthly_fees table: fee id -> row
    reminders,      \* fee_reminders table (the ledger), in insertion order
    config,         \* automation_config rows the reminder engine reads
    runs,           \* the reminder runs: run id -> position and local state
    lastTimerDay,   \* day of the timer's last fire of daily_fee_reminders
    cache,          \* analytics_cache table: set of rows
    nextCacheId,    \* analytics_cache primary key sequence
    writers,        \* cache_analytics calls in flight: writer id -> local state
    students,       \* students table: student id -> row
    section_assignments,  \* section_assignments table (the history), in insertion order
    system_settings, \* the SystemSetting rows with key "system", as the mapped class loads them
    partition,      \* the sort and the partition loop applied to a query result
    assign_response, \* the last response of POST /batch/assign-sections
    response,       \* the last response of POST /scheduler/trigger/daily_fee_reminders
    reorganize_response, \* what POST /batch/reorganize-all answered last
    risk,           \* the risk scoring of get_at_risk_students applied to a student
    forecast,       \* forecast_revenue applied to a series of monthly totals
    automation_scheduler \* the AutomationScheduler instance of scheduler.py

vars == <<now, fees, reminders, config, runs, lastTimerDay, cache, nextCacheId, writers,
          students, section_assignments, system_settings, partition,
          assign_response, reorganize_response,
          response, risk, forecast, automation_scheduler>>

reminderVars == <<fees, reminders, config, runs, lastTimerDay, response>>
cacheVars == <<cache, nextCacheId, writers>>
batchVars == <<students, section_assignments, system_settings, partition, assign_response,
               reorganize_response>>
analyticsVars == <<risk, forecast>>
schedulerVars == <<automation_scheduler>>

(***************************************************************************)
(* Bounds of the model                                                     *)
(***************************************************************************)
TicksPerDay == 2
MaxTime == 5
MaxLedger == 4
MaxPaid == 2
MaxActive == 2
MaxCacheId == 2
MaxCacheTime == 2
MaxPermuted == 3
MaxMonths == 4

(***************************************************************************)
(* Program constants                                                       *)
(***************************************************************************)
ThrottleDays == 2
OverdueKeyA == 3
OverdueKeyB == 7
OverdueKeyFinal == 15
DefaultBatchSize == 30
CodeOfA == 65

FeeIds == {1, 2}
ReminderTypes == {"advance", "due", "overdue", "final"}
RunIds == {"timer", "trigger", "manual"}

Today(t) == t \div TicksPerDay
TwoDays == ThrottleDays * TicksPerDay

RECURSIVE SortedSeq(_)
SortedSeq(S) ==
    IF S = {} THEN <<>>
    ELSE LET m == CHOOSE x \in S : \A y \in S : x <= y
         IN <<m>> \o SortedSeq(S \ {m})

Range(s) == {s[i] : i \in DOMAIN s}

(***************************************************************************)
(* FeeReminderService.should_send_reminder                                 *)
(***************************************************************************)
CountReminders(ledger, student_id, fee_id) ==
    Cardinality({i \in DOMAIN ledger :
        /\ ledger[i].student_id = student_id
        /\ ledger[i].monthly_fee_id = fee_id})

RecentReminders_one_day(ledger, t, student_id, fee_id, reminder_type) ==
    {i \in DOMAIN ledger :
        /\ ledger[i].student_id = student_id
        /\ ledger[i].monthly_fee_id = fee_id
        /\ ledger[i].reminder_type = reminder_type
        /\ ledger[i].sent_at >= t - TicksPerDay}

RecentReminders_sent_only(ledger, t, student_id, fee_id, reminder_type) ==
    {i \in DOMAIN ledger :
        /\ ledger[i].student_id = student_id
        /\ ledger[i].monthly_fee_id = fee_id
        /\ ledger[i].reminder_type = reminder_type
        /\ ledger[i].sms_status = "sent"
        /\ ledger[i].sent_at >= t - TwoDays}

RecentReminders(ledger, t, student_id, fee_id, reminder_type) ==
    {i \in DOMAIN ledger :
        /\ ledger[i].student_id = student_id
        /\ ledger[i].monthly_fee_id = fee_id
        /\ ledger[i].reminder_type = reminder_type
        /\ ledger[i].sent_at >= t - TwoDays}

should_send_reminder_no_cap_eq(ledger, cfg, t, student_id, fee_id, reminder_type) ==
    IF ~cfg.fee_reminder_enabled THEN FALSE
    ELSE IF CountReminders(ledger, student_id, fee_id) > cfg.max_reminders_per_student THEN FALSE
    ELSE IF RecentReminders(ledger, t, student_id, fee_id, reminder_type) # {} THEN FALSE
    ELSE TRUE

should_send_reminder(ledger, cfg, t, student_id, fee_id, reminder_type) ==
    IF ~cfg.fee_reminder_enabled THEN FALSE
    ELSE IF CountReminders(ledger, student_id, fee_id) >= cfg.max_reminders_per_student THEN FALSE
    ELSE IF RecentReminders(ledger, t, student_id, fee_id, reminder_type) # {} THEN FALSE
    ELSE TRUE

\* scalar_one_or_none raises MultipleResultsFound when the recent-reminder
\* query matches more than one row.
should_send_raises(ledger, cfg, t, student_id, fee_id, reminder_type) ==
    /\ cfg.fee_reminder_enabled
    /\ CountReminders(ledger, student_id, fee_id) < cfg.max_reminders_per_student
    /\ Cardinality(RecentReminders(ledger, t, student_id, fee_id, reminder_type)) > 1

(***************************************************************************)
(* FeeReminderService.get_pending_fees_for_reminders                       *)
(* The queries have no ORDER BY; rows are taken in primary-key order.      *)
(***************************************************************************)
EligibleOn(fs, d) ==
    SortedSeq({f \in DOMAIN fs :
        /\ fs[f].status \in {"pending", "partial"}
        /\ fs[f].amount_pending > 0
        /\ fs[f].due_date = d})

\* categorized_fees: the "advance" and "due" lists and, keyed by the number of
\* days n, the "overdue_<n>" lists: the three keys of the initial dict plus one
\* key per configured offset.
get_pending_fees_for_reminders(fs, cfg, today) ==
    [advance |-> EligibleOn(fs, today + cfg.fee_reminder_days_before),
     due     |-> EligibleOn(fs, today),
     overdue |-> [n \in {OverdueKeyA, OverdueKeyB, OverdueKeyFinal}
                        \cup Range(cfg.fee_reminder_overdue_days) |->
                    IF n \in Range(cfg.fee_reminder_overdue_days)
                    THEN EligibleOn(fs, today - n)
                    ELSE <<>>]]

(***************************************************************************)
(* FeeReminderService.process_automated_reminders: the order in which the  *)
(* loops visit the categorized fees, each with the reminder type the loop  *)
(* passes on. An item holds the MonthlyFee object as the query loaded it.  *)
(***************************************************************************)
Item(fs, f, reminder_type) ==
    [fee |-> f, reminder_type |-> reminder_type,
     student_id |-> fs[f].student_id,
     amount_pending |-> fs[f].amount_pending,
     due_date |-> fs[f].due_date]

ItemsOf(fs, lst, reminder_type) ==
    [i \in 1..Len(lst) |-> Item(fs, lst[i], reminder_type)]

OverdueType(key) == IF key # OverdueKeyFinal THEN "overdue" ELSE "final"

ProcessingOrder(fs, cat) ==
    ItemsOf(fs, cat.advance, "advance")
    \o ItemsOf(fs, cat.due, "due")
    \o ItemsOf(fs, cat.overdue[OverdueKeyA], OverdueType(OverdueKeyA))
    \o ItemsOf(fs, cat.overdue[OverdueKeyB], OverdueType(OverdueKeyB))
    \o ItemsOf(fs, cat.overdue[OverdueKeyFinal], OverdueType(OverdueKeyFinal))

ZeroStats ==
    [total_processed |-> 0, reminders_sent |-> 0, reminders_failed |-> 0,
     by_type |-> [k \in ReminderTypes |-> 0]]

\* A run of process_automated_reminders: its position, the items of its loops
\* and its stats dict. Two fields keep history the code does not hold: the
\* configuration rows as they were when the run began (started_with), and the
\* number of fee_reminders rows the run has committed, by status (created).
NoneCreated == [sent |-> 0, failed |-> 0]

IdleRun ==
    [pc |-> "idle", items |-> <<>>, i |-> 1, stats |-> ZeroStats,
     started_with |-> {}, created |-> NoneCreated]

(***************************************************************************)
(* FeeReminderService.send_reminder: the ledger after the send. The record *)
(* is written whatever the transport returned.                             *)
(***************************************************************************)
NewReminder(item, t, success) ==
    [student_id |-> item.student_id,
     monthly_fee_id |-> item.fee,
     reminder_type |-> item.reminder_type,
     amount_pending |-> item.amount_pending,
     due_date |-> item.due_date,
     sent_at |-> t,
     sms_status |-> IF success THEN "sent" ELSE "failed",
     payment_received_after |-> FALSE,
     days_to_payment |-> {}]

send_reminder_only_on_success(ledger, item, t, success) ==
    IF success THEN Append(ledger, NewReminder(item, t, success)) ELSE ledger

send_reminder(ledger, item, t, success) ==
    Append(ledger, NewReminder(item, t, success))

\* The rows a run has committed, by status, after a send that took the
\* ledger from `before` to `after`.
Created(created, before, after) ==
    LET added == {i \in DOMAIN after : i > Len(before)}
    IN [sent |-> created.sent
                    + Cardinality({i \in added : after[i].sms_status = "sent"}),
        failed |-> created.failed
                    + Cardinality({i \in added : after[i].sms_status = "failed"})]

CountSend_by_type_always(stats, reminder_type, success) ==
    IF success
    THEN [stats EXCEPT !.reminders_sent = @ + 1, !.by_type[reminder_type] = @ + 1]
    ELSE [stats EXCEPT !.reminders_failed = @ + 1, !.by_type[reminder_type] = @ + 1]

\* The loop body's bookkeeping after send_reminder returned `success`.
CountSend(stats, reminder_type, success) ==
    IF success
    THEN [stats EXCEPT !.reminders_sent = @ + 1, !.by_type[reminder_type] = @ + 1]
    ELSE [stats EXCEPT !.reminders_failed = @ + 1]

Active(r) == runs[r].pc \in {"check", "send"}

(***************************************************************************)
(* AutomationScheduler: __init__, setup_jobs, start, stop. The instance is *)
(* its is_running flag and its APScheduler scheduler: the scheduler's      *)
(* state and the jobs it holds, in the order they were added.              *)
(***************************************************************************)
JobIds ==
    <<"daily_fee_reminders", "daily_attendance_alerts", "weekly_analytics",
      "monthly_reports", "cache_cleanup">>

add_job_appends(jobs, id) == Append(jobs, id)

\* scheduler.add_job(..., id=id, replace_existing=True): a job with the id
\* takes the place of the job that has it, or is added.
add_job(jobs, id) ==
    IF \E i \in DOMAIN jobs : jobs[i] = id THEN jobs ELSE Append(jobs, id)

RECURSIVE AddJobs(_, _)
AddJobs(jobs, ids) ==
    IF ids = <<>> THEN jobs ELSE AddJobs(add_job(jobs, Head(ids)), Tail(ids))

setup_jobs(jobs) == AddJobs(jobs, JobIds)

NewScheduler == [is_running |-> FALSE, state |-> "stopped", jobs |-> <<>>]

\* start(): scheduler.start() raises SchedulerAlreadyRunningError on a
\* scheduler that runs, before is_running is set.
start(s) ==
    IF s.is_running THEN s
    ELSE IF s.state = "running" THEN [s EXCEPT !.jobs = setup_jobs(s.jobs)]
    ELSE [is_running |-> TRUE, state |-> "running", jobs |-> setup_jobs(s.jobs)]

\* stop(): scheduler.shutdown() shuts down the job stores; whether a store
\* keeps its jobs depends on the store (kept).
stop(s, kept) ==
    IF s.is_running
    THEN [is_running |-> FALSE, state |-> "stopped",
          jobs |-> IF kept THEN s.jobs ELSE <<>>]
    ELSE s

\* lifespan's startup, or any other call of automation_scheduler.start().
SchedulerStart ==
    /\ automation_scheduler' = start(automation_scheduler)
    /\ UNCHANGED <<analyticsVars, now, reminderVars, cacheVars, batchVars>>

\* lifespan's shutdown, or any other call of automation_scheduler.stop().
SchedulerStop ==
    /\ \E kept \in BOOLEAN : automation_scheduler' = stop(automation_scheduler, kept)
    /\ UNCHANGED <<analyticsVars, now, reminderVars, cacheVars, batchVars>>

\* The timer fires a job of a scheduler that runs and holds the job.
TimerFires(id) ==
    /\ automation_scheduler.state = "running"
    /\ \E i \in DOMAIN automation_scheduler.jobs : automation_scheduler.jobs[i] = id

(***************************************************************************)
(* AutomationScheduler.daily_fee_reminders and trigger_scheduled_job       *)
(***************************************************************************)
\* What a call gave back: it raised, or it returned a value ({} is None).
Raised == [raised |-> TRUE, value |-> {}]
Returned(value) == [raised |-> FALSE, value |-> value]

\* The job method around process_automated_reminders: the summary is logged,
\* an exception is logged, and in both cases the method returns None.
daily_fee_reminders(body) == Returned({})

\* The endpoint's try/except around the awaited job method.
trigger_scheduled_job(job) ==
    IF job.raised
    THEN [status_code |-> 500, detail |-> "Error executing job"]
    ELSE [status_code |-> 200,
          body |-> [success |-> TRUE,
                    message |-> "Job daily_fee_reminders executed successfully"]]

NoResponse == [status_code |-> 0]

\* The response variable after run r ended with `body`: only the trigger run
\* answers through trigger_scheduled_job.
Respond(r, body) ==
    response' = IF r = "trigger"
                THEN trigger_scheduled_job(daily_fee_reminders(body))
                ELSE response

\* The run's state after the loop iteration at run.i: the next iteration, or
\* the end of the last loop, where `return stats` ends the run.
Advance(r, run) ==
    IF run.i + 1 > Len(run.items)
    THEN /\ runs' = [runs EXCEPT ![r] = IdleRun]
         /\ Respond(r, Returned({run.stats}))
    ELSE /\ runs' = [runs EXCEPT ![r] = [run EXCEPT !.i = @ + 1, !.pc = "check"]]
         /\ UNCHANGED response

(***************************************************************************)
(* Actions of the reminder engine                                          *)
(***************************************************************************)
\* A run begins: the timer's fire of daily_fee_reminders (once a day, at the
\* day's first tick), POST /scheduler/trigger/daily_fee_reminders, or
\* POST /fee-reminders/send. It classifies the pending fees against today.
\* MaxActive bounds the runs in progress and MaxLedger the ledger a run
\* starts from.
StartRun(r) ==
    /\ ~Active(r)
    /\ Cardinality({q \in RunIds : Active(q)}) < MaxActive
    /\ Len(reminders) < MaxLedger
    /\ IF r = "timer"
       THEN /\ TimerFires("daily_fee_reminders")
            /\ now % TicksPerDay = 0
            /\ Today(now) > lastTimerDay
            /\ lastTimerDay' = Today(now)
       ELSE UNCHANGED lastTimerDay
    /\ LET items == ProcessingOrder(fees,
                        get_pending_fees_for_reminders(fees, config, Today(now)))
       IN IF Len(items) = 0
          THEN /\ UNCHANGED runs
               /\ Respond(r, Returned({ZeroStats}))
          ELSE /\ runs' = [runs EXCEPT ![r] =
                        [pc |-> "check", items |-> items, i |-> 1, stats |-> ZeroStats,
                         started_with |-> {config}, created |-> NoneCreated]]
               /\ UNCHANGED response
    /\ UNCHANGED <<schedulerVars, analyticsVars, now, fees, reminders, config, cacheVars, batchVars>>

\* One loop iteration up to the throttle decision.
CheckReminder(r) ==
    /\ runs[r].pc = "check"
    /\ LET run == runs[r]
           item == run.items[run.i]
           counted == [run EXCEPT !.stats.total_processed = @ + 1]
       IN IF should_send_raises(reminders, config, now,
                                item.student_id, item.fee, item.reminder_type)
          THEN /\ runs' = [runs EXCEPT ![r] = IdleRun]
               /\ Respond(r, Raised)
          ELSE IF should_send_reminder(reminders, config, now,
                                item.student_id, item.fee, item.reminder_type)
          THEN /\ runs' = [runs EXCEPT ![r] = [counted EXCEPT !.pc = "send"]]
               /\ UNCHANGED response
          ELSE Advance(r, counted)
    /\ UNCHANGED <<schedulerVars, analyticsVars, now, fees, reminders, config, lastTimerDay, cacheVars, batchVars>>

\* The transport call and the ledger write of the same iteration.
SendReminder(r) ==
    /\ runs[r].pc = "send"
    /\ \E success \in BOOLEAN :
        LET run == runs[r]
            item == run.items[run.i]
        IN /\ reminders' = send_reminder(reminders, item, now, success)
           /\ Advance(r, [run EXCEPT
                    !.stats = CountSend(run.stats, item.reminder_type, success),
                    !.created = Created(run.created, reminders, reminders')])
    /\ UNCHANGED <<schedulerVars, analyticsVars, now, fees, config, lastTimerDay, cacheVars, batchVars>>

(***************************************************************************)
(* FeeService.update_payment_status and the record_payment endpoint        *)
(***************************************************************************)
update_payment_status(fee) ==
    IF fee.amount_paid >= fee.total_fee
    THEN [fee EXCEPT !.status = "paid", !.amount_pending = 0]
    ELSE IF fee.amount_paid > 0
    THEN [fee EXCEPT !.status = "partial",
                     !.amount_pending = fee.total_fee - fee.amount_paid]
    ELSE [fee EXCEPT !.status = "pending", !.amount_pending = fee.total_fee]

\* POST /payments/: adds the amount to the fee and updates its status. The
\* handler does not touch fee_reminders. MaxPaid bounds what was paid before.
RecordPayment(f, amount) ==
    /\ fees[f].amount_paid < MaxPaid
    /\ fees' = [fees EXCEPT ![f] =
                    update_payment_status([fees[f] EXCEPT !.amount_paid = @ + amount])]
    /\ UNCHANGED <<schedulerVars, analyticsVars, now, reminders, config, runs, lastTimerDay, cacheVars, batchVars, response>>

(***************************************************************************)
(* FeeReminderService.mark_payment_received                                *)
(***************************************************************************)
mark_payment_received_all_records(ledger, t, monthly_fee_id) ==
    [i \in DOMAIN ledger |->
        IF ledger[i].monthly_fee_id = monthly_fee_id
        THEN [ledger[i] EXCEPT !.payment_received_after = TRUE,
                               !.days_to_payment = {(t - ledger[i].sent_at) \div TicksPerDay}]
        ELSE ledger[i]]

\* The ledger after the call: the rows of the fee with the flag unset get the
\* flag and the whole days between the send and now.
mark_payment_received(ledger, t, monthly_fee_id) ==
    [i \in DOMAIN ledger |->
        IF /\ ledger[i].monthly_fee_id = monthly_fee_id
           /\ ledger[i].payment_received_after = FALSE
        THEN [ledger[i] EXCEPT !.payment_received_after = TRUE,
                               !.days_to_payment = {(t - ledger[i].sent_at) \div TicksPerDay}]
        ELSE ledger[i]]

MarkPaymentReceived(f) ==
    /\ reminders' = mark_payment_received(reminders, now, f)
    /\ UNCHANGED <<schedulerVars, analyticsVars, now, fees, config, runs, lastTimerDay, cacheVars, batchVars, response>>

(***************************************************************************)
(* FeeReminderService.get_reminder_stats. The effectiveness rate is the    *)
(* fraction num/den the float expression denotes.                          *)
(***************************************************************************)
PaymentAfterReminder(ledger) ==
    Cardinality({i \in DOMAIN ledger : ledger[i].payment_received_after = TRUE})

get_reminder_stats_unscaled(ledger) ==
    LET total_reminders == Len(ledger)
        payment_after_reminder == PaymentAfterReminder(ledger)
    IN [total_reminders |-> total_reminders,
        by_type |-> [k \in ReminderTypes |->
                        Cardinality({i \in DOMAIN ledger : ledger[i].reminder_type = k})],
        payment_after_reminder |-> payment_after_reminder,
        effectiveness_rate |->
            IF total_reminders > 0
            THEN [num |-> payment_after_reminder, den |-> total_reminders]
            ELSE [num |-> 0, den |-> 1]]

get_reminder_stats(ledger) ==
    LET total_reminders == Len(ledger)
        payment_after_reminder == PaymentAfterReminder(ledger)
    IN [total_reminders |-> total_reminders,
        by_type |-> [k \in ReminderTypes |->
                        Cardinality({i \in DOMAIN ledger : ledger[i].reminder_type = k})],
        payment_after_reminder |-> payment_after_reminder,
        effectiveness_rate |->
            IF total_reminders > 0
            THEN [num |-> payment_after_reminder * 100, den |-> total_reminders]
            ELSE [num |-> 0, den |-> 1]]

(***************************************************************************)
(* Analytics result cache                                                  *)
(*                                                                         *)
(* A payload is a JSON-like tree: a node is a number with its Python type  *)
(* ("Decimal", "float", "int"), a list of nodes, or a dict of nodes under  *)
(* string keys.                                                            *)
(***************************************************************************)
Num(tag, val) == [tag |-> tag, val |-> val, keys |-> <<>>, items |-> <<>>]
List(items) == [tag |-> "list", val |-> 0, keys |-> <<>>, items |-> items]
Dict(keys, items) == [tag |-> "dict", val |-> 0, keys |-> keys, items |-> items]

\* AnalyticsService._convert_decimals_to_float
RECURSIVE convert_decimals_to_float(_)
convert_decimals_to_float(obj) ==
    IF obj.tag = "Decimal" THEN [obj EXCEPT !.tag = "float"]
    ELSE IF obj.tag \in {"dict", "list"}
    THEN [obj EXCEPT !.items =
            [i \in DOMAIN obj.items |-> convert_decimals_to_float(obj.items[i])]]
    ELSE obj

ReportTypes == {"dashboard", "collection_trends"}
ParameterSets == {[academic_year_id |-> 1], [academic_year_id |-> 2]}
Payloads ==
    { Dict(<<"total_pending", "monthly">>,
           <<Num("Decimal", 1), List(<<Num("int", 1), Num("Decimal", 2)>>)>>),
      Dict(<<"total_pending", "monthly">>,
           <<Num("float", 1), List(<<Num("int", 1), Num("float", 2)>>)>>) }
TtlChoices == {0, 2}
WriterIds == {"weekly_analytics", "dashboard_request"}

IdleWriter ==
    [pc |-> "idle", report_type |-> "", parameters |-> [academic_year_id |-> 0],
     result_data |-> Num("int", 0), serializable_data |-> Num("int", 0),
     ttl_seconds |-> 0, expires_at |-> 0, found |-> 0]

\* The rows the identity query of cache_analytics and get_cached_analytics
\* matches.
CacheRows(c, report_type, parameters) ==
    {row \in c : row.report_type = report_type /\ row.parameters = parameters}

get_cached_analytics_inclusive(c, t, report_type, parameters) ==
    {row.result_data : row \in
        {row \in CacheRows(c, report_type, parameters) : row.expires_at >= t}}

\* AnalyticsService.get_cached_analytics: {} is None, {d} is the payload d.
get_cached_analytics(c, t, report_type, parameters) ==
    {row.result_data : row \in
        {row \in CacheRows(c, report_type, parameters) : row.expires_at > t}}

\* AnalyticsService.cache_analytics up to the identity query: expires_at and
\* the serializable payload are computed, the row with the identity is
\* looked up (found = 0: none).
CacheAnalyticsSelect(w, report_type, parameters, result_data, ttl_seconds) ==
    /\ writers[w].pc = "idle"
    /\ LET rows == CacheRows(cache, report_type, parameters)
       IN /\ \/ rows # {}
             \/ nextCacheId + Cardinality({v \in WriterIds :
                    writers[v].pc = "selected" /\ writers[v].found = 0}) <= MaxCacheId
          /\ writers' = [writers EXCEPT ![w] =
            [pc |-> "selected",
             report_type |-> report_type,
             parameters |-> parameters,
             result_data |-> result_data,
             serializable_data |-> convert_decimals_to_float(result_data),
             ttl_seconds |-> ttl_seconds,
             expires_at |-> now + ttl_seconds,
             found |-> IF rows = {} THEN 0 ELSE (CHOOSE row \in rows : TRUE).id]]
    /\ UNCHANGED <<schedulerVars, analyticsVars, now, reminderVars, cache, nextCacheId, batchVars>>

CommitSucceeds_no_unique_index(w) ==
    IF writers[w].found # 0
    THEN \E row \in cache : row.id = writers[w].found
    ELSE TRUE

\* Whether the commit of writer w goes through: the row it loaded is still
\* there to update, or its insert meets no row with the same identity (the
\* unique index idx_analytics_unique).
CommitSucceeds(w) ==
    IF writers[w].found # 0
    THEN \E row \in cache : row.id = writers[w].found
    ELSE CacheRows(cache, writers[w].report_type, writers[w].parameters) = {}

UpsertedCache_keeps_expiry(c, wr, t, id) ==
    IF wr.found # 0
    THEN {IF row.id = wr.found
          THEN [row EXCEPT !.result_data = wr.serializable_data,
                           !.computed_at = t]
          ELSE row : row \in c}
    ELSE c \cup {[id |-> id,
                  report_type |-> wr.report_type,
                  parameters |-> wr.parameters,
                  result_data |-> wr.serializable_data,
                  computed_at |-> t,
                  expires_at |-> wr.expires_at]}

\* The table after the commit of an update of the loaded row or of an insert.
UpsertedCache(c, wr, t, id) ==
    IF wr.found # 0
    THEN {IF row.id = wr.found
          THEN [row EXCEPT !.result_data = wr.serializable_data,
                           !.computed_at = t,
                           !.expires_at = wr.expires_at]
          ELSE row : row \in c}
    ELSE c \cup {[id |-> id,
                  report_type |-> wr.report_type,
                  parameters |-> wr.parameters,
                  result_data |-> wr.serializable_data,
                  computed_at |-> t,
                  expires_at |-> wr.expires_at]}

\* AnalyticsService.cache_analytics from the update or insert to the commit.
\* A commit that fails raises and leaves the table as it was.
CacheAnalyticsCommit(w) ==
    /\ writers[w].pc = "selected"
    /\ IF CommitSucceeds(w)
       THEN /\ cache' = UpsertedCache(cache, writers[w], now, nextCacheId)
            /\ nextCacheId' = IF writers[w].found = 0 THEN nextCacheId + 1 ELSE nextCacheId
       ELSE UNCHANGED <<cache, nextCacheId>>
    /\ writers' = [writers EXCEPT ![w] = IdleWriter]
    /\ UNCHANGED <<schedulerVars, analyticsVars, now, reminderVars, batchVars>>

ClearedCache_every_kind(c, report_type) == {}

\* POST /analytics/clear-cache: report_type "" stands for no report type.
ClearedCache(c, report_type) ==
    IF report_type # ""
    THEN {row \in c : row.report_type # report_type}
    ELSE {}

ClearAnalyticsCache(report_type) ==
    /\ cache' = ClearedCache(cache, report_type)
    /\ UNCHANGED <<schedulerVars, analyticsVars, now, reminderVars, nextCacheId, writers, batchVars>>

SweptCache_expiring_soon(c, t) == {row \in c : ~(row.expires_at < t + TicksPerDay)}

\* AutomationScheduler.daily_cache_cleanup
SweptCache(c, t) == {row \in c : ~(row.expires_at < t)}

DailyCacheCleanup ==
    /\ cache' = SweptCache(cache, now)
    /\ UNCHANGED <<schedulerVars, analyticsVars, now, reminderVars, nextCacheId, writers, batchVars>>

(***************************************************************************)
(* Batch assignment (batch_assignment.py)                                  *)
(*                                                                         *)
(* Names are compared as Python compares strings; NameOrder lists the      *)
(* names of the model in that order. average_marks is {} for None.         *)
(***************************************************************************)
NameOrder == <<"Asha", "Das", "Rao", "Ravi">>
NameRank(name) == CHOOSE i \in DOMAIN NameOrder : NameOrder[i] = name

\* chr(code) for the codes from 65: the capital letters and what follows them.
CharsFromA ==
    <<"A", "B", "C", "D", "E", "F", "G", "H", "I", "J", "K", "L", "M",
      "N", "O", "P", "Q", "R", "S", "T", "U", "V", "W", "X", "Y", "Z",
      "[", "\\", "]", "^", "_">>
Chr(code) == CharsFromA[code - CodeOfA + 1]

Strategies == {"alphabetical", "merit"}

\* The defaults get_batch_settings returns when there is no "system" row.
DefaultSettings ==
    [max_batch_size |-> DefaultBatchSize, batch_assignment_strategy |-> "alphabetical"]

\* get_batch_settings: the defaults when there is no "system" row. The mapped
\* class SystemSetting has no attribute max_batch_size (nor the other batch
\* attributes), so reading it from a row that exists raises AttributeError.
get_batch_settings(rows) ==
    IF rows = {} THEN Returned(DefaultSettings) ELSE Raised

MarksOrZero(st) ==
    IF st.average_marks = {} THEN 0 ELSE CHOOSE v \in st.average_marks : TRUE

\* The sort key of a student under the strategy, as a tuple of integers.
SortKey(st, strategy) ==
    IF strategy = "alphabetical"
    THEN <<NameRank(st.first_name), NameRank(st.last_name)>>
    ELSE IF strategy = "merit"
    THEN <<-MarksOrZero(st), NameRank(st.first_name), NameRank(st.last_name)>>
    ELSE <<>>

\* Python's order of two tuples of the same length.
RECURSIVE TupleLess(_, _)
TupleLess(a, b) ==
    IF Len(a) = 0 THEN FALSE
    ELSE IF a[1] # b[1] THEN a[1] < b[1]
    ELSE TupleLess(Tail(a), Tail(b))

\* sorted(): ascending by key and stable, so a student goes behind the
\* students of an equal key that the store returned before it.
RECURSIVE InsertByKey(_, _, _, _)
InsertByKey(sorted, id, sts, strategy) ==
    IF sorted = <<>> THEN <<id>>
    ELSE IF TupleLess(SortKey(sts[id], strategy), SortKey(sts[Head(sorted)], strategy))
    THEN <<id>> \o sorted
    ELSE <<Head(sorted)>> \o InsertByKey(Tail(sorted), id, sts, strategy)

RECURSIVE SortedStudents(_, _, _)
SortedStudents(order, sts, strategy) ==
    IF order = <<>> THEN <<>>
    ELSE InsertByKey(SortedStudents(SubSeq(order, 1, Len(order) - 1), sts, strategy),
                     order[Len(order)], sts, strategy)

\* The active students of the class and year the query selects.
ClassStudents(sts, class_id) ==
    {id \in DOMAIN sts : sts[id].class_id = class_id /\ sts[id].status = "active"}

\* The section count without rounding up.
NumSections_floor(total_students, max_batch_size) ==
    total_students \div max_batch_size

NumSections(total_students, max_batch_size) ==
    (total_students + max_batch_size - 1) \div max_batch_size

SectionLabels(num_sections) == [i \in 1..num_sections |-> Chr(CodeOfA + i - 1)]

\* The label of the student at position idx (from 0) of the sorted order.
SectionOf(idx, max_batch_size, section_labels) ==
    LET section_idx == idx \div max_batch_size
    IN IF section_idx < Len(section_labels)
       THEN section_labels[section_idx + 1]
       ELSE "Z"

\* The sections a run computes: student id -> label, for the students in
\* `order`, the order in which the store returned them.
ComputedSections(order, sts, strategy, max_batch_size) ==
    LET sorted == SortedStudents(order, sts, strategy)
        labels == SectionLabels(NumSections(Len(sorted), max_batch_size))
        position == [id \in Range(order) |-> CHOOSE i \in DOMAIN sorted : sorted[i] = id]
    IN [id \in Range(order) |-> SectionOf(position[id] - 1, max_batch_size, labels)]

Reason(strategy) ==
    IF strategy = "alphabetical" THEN "Alphabetical order by name"
    ELSE IF strategy = "merit" THEN "Merit-based on average marks"
    ELSE "Default assignment"

\* The history records of a run, in the sorted order.
NewAssignments(order, sts, class_id, strategy, max_batch_size) ==
    LET sorted == SortedStudents(order, sts, strategy)
        sections == ComputedSections(order, sts, strategy, max_batch_size)
    IN [i \in DOMAIN sorted |->
            [student_id |-> sorted[i],
             class_id |-> class_id,
             assigned_section |-> sections[sorted[i]],
             assignment_strategy |-> strategy,
             assignment_reason |-> Reason(strategy)]]

\* The orders in which the store may return a set of rows: any order for a
\* small set; for a larger one the ascending and the descending order.
RECURSIVE Perms(_)
Perms(S) ==
    IF S = {} THEN {<<>>}
    ELSE UNION {{<<x>> \o p : p \in Perms(S \ {x})} : x \in S}

RECURSIVE Reverse(_)
Reverse(q) == IF q = <<>> THEN <<>> ELSE Reverse(Tail(q)) \o <<Head(q)>>

StoreOrders(S) ==
    IF Cardinality(S) <= MaxPermuted THEN Perms(S)
    ELSE {SortedSeq(S), Reverse(SortedSeq(S))}

\* Lines 86-135 applied to the rows `order` of the query, a strategy and a
\* batch size: the sections set on the students and the history records added
\* to the session.
BatchSizeChoices == {1, 2, DefaultBatchSize}

PartitionStudents(class_id, strategy, max_batch_size, order) ==
    /\ order \in StoreOrders(ClassStudents(students, class_id))
    /\ order # <<>>
    /\ partition' =
        [class_id |-> class_id, strategy |-> strategy, max_batch_size |-> max_batch_size,
         sections |-> ComputedSections(order, students, strategy, max_batch_size),
         added |-> NewAssignments(order, students, class_id, strategy, max_batch_size)]
    /\ partition' # partition
    /\ UNCHANGED <<schedulerVars, analyticsVars, now, reminderVars, cacheVars, students, section_assignments,
                   system_settings, assign_response, reorganize_response>>

NoPartition ==
    [class_id |-> 0, strategy |-> "", max_batch_size |-> DefaultBatchSize,
     sections |-> <<>>, added |-> <<>>]

\* assign_sections_to_class as a call: what it gives back. With students to
\* assign, the loop fills the session and the UPDATE of lines 138-142 then
\* names last_reorganization_date, a column the mapped class SystemSetting
\* does not have: the statement does not compile, the call raises before the
\* commit of line 144 and the session is rolled back.
assign_sections_to_class(rows, sts, class_id, strategy_arg, order) ==
    LET settings == get_batch_settings(rows)
    IN IF settings.raised THEN Raised
       ELSE IF order = <<>>
       THEN Returned([message |-> "No students found in this class", assigned |-> 0])
       ELSE Raised

\* The endpoint's try/except around assign_sections_to_class.
assign_sections(call) ==
    IF call.raised
    THEN [status_code |-> 500, detail |-> "Failed to assign sections"]
    ELSE [status_code |-> 200, body |-> call.value]

\* POST /batch/assign-sections for one class; strategy "" is no strategy given.
AssignSections(class_id, strategy_arg, order) ==
    /\ order \in StoreOrders(ClassStudents(students, class_id))
    /\ assign_response' = assign_sections(
            assign_sections_to_class(system_settings, students, class_id, strategy_arg, order))
    /\ assign_response' # assign_response
    /\ UNCHANGED <<schedulerVars, analyticsVars, now, reminderVars, cacheVars, students, section_assignments,
                   system_settings, partition, reorganize_response>>

(***************************************************************************)
(* reorganize_all_classes and POST /batch/reorganize-all                   *)
(***************************************************************************)
\* The history after a call that raised: the session holds the sections and history
\* records the loop set and added (pending); the commit of line 144 was not
\* reached, and the session is closed without it.
RolledBack_keeps_flushed(recs, pending) == recs \o pending

RolledBack(recs, pending) == recs

\* The position in class_order of the first class whose
\* assign_sections_to_class call raises; 0 when none does.
RECURSIVE FirstFailing(_, _, _, _, _)
FirstFailing(rows, sts, class_order, orders, k) ==
    IF k > Len(class_order) THEN 0
    ELSE IF assign_sections_to_class(rows, sts, class_order[k], "",
                                     orders[class_order[k]]).raised
    THEN k
    ELSE FirstFailing(rows, sts, class_order, orders, k + 1)

\* reorganize_all_classes over the classes in the order the query returned
\* them, each with its students in the order its query returned them. No
\* exception of a class is caught in the loop: the first class that raises
\* ends the call. total_students adds result.get("total_students", 0), which
\* is 0 for the result of a class without students.
reorganize_all_classes(rows, sts, class_order, orders) ==
    IF FirstFailing(rows, sts, class_order, orders, 1) # 0 THEN Raised
    ELSE Returned([message |-> "Reorganized classes",
                   total_classes |-> Len(class_order),
                   total_students |-> 0,
                   details |-> [k \in 1..Len(class_order) |->
                        [class_id |-> class_order[k],
                         result |-> assign_sections_to_class(rows, sts, class_order[k], "",
                                        orders[class_order[k]]).value]]])

\* The endpoint's try/except around reorganize_all_classes.
reorganize_all(call) ==
    IF call.raised
    THEN [status_code |-> 500, detail |-> "Failed to reorganize classes"]
    ELSE [status_code |-> 200, body |-> call.value]

NoReorganization == [response |-> NoResponse, processed |-> <<>>, failed |-> {}]

\* POST /batch/reorganize-all. Next to the response the variable keeps the
\* classes whose call returned (processed) and the class whose call raised
\* (failed), which the response does not tell.
ReorganizeAll(class_order, orders) ==
    /\ \A c \in DOMAIN orders : orders[c] \in StoreOrders(ClassStudents(students, c))
    /\ LET k == FirstFailing(system_settings, students, class_order, orders, 1)
           pending == IF k = 0 THEN <<>>
                      ELSE IF get_batch_settings(system_settings).raised THEN <<>>
                      ELSE NewAssignments(orders[class_order[k]], students, class_order[k],
                                get_batch_settings(system_settings).value.batch_assignment_strategy,
                                get_batch_settings(system_settings).value.max_batch_size)
       IN /\ reorganize_response' =
                [response |-> reorganize_all(
                        reorganize_all_classes(system_settings, students, class_order, orders)),
                 processed |-> IF k = 0 THEN class_order ELSE SubSeq(class_order, 1, k - 1),
                 failed |-> IF k = 0 THEN {} ELSE {class_order[k]}]
          /\ section_assignments' = RolledBack(section_assignments, pending)
    /\ reorganize_response' # reorganize_response
    /\ UNCHANGED <<schedulerVars, analyticsVars, now, reminderVars, cacheVars, students, system_settings,
                   partition, assign_response>>

\* GET /settings: creates the "system" row when there is none.
GetSystemSettings ==
    /\ system_settings = {}
    /\ system_settings' = {[key |-> "system", value |-> "{}"]}
    /\ UNCHANGED <<schedulerVars, analyticsVars, now, reminderVars, cacheVars, students, section_assignments,
                   partition, assign_response, reorganize_response>>

\* A student leaves the school (DELETE /students/{id}) or returns.
StatusChangeIds == {2}

ChangeStudentStatus(id) ==
    /\ students' = [students EXCEPT ![id].status =
                        IF @ = "active" THEN "inactive" ELSE "active"]
    /\ UNCHANGED <<schedulerVars, analyticsVars, now, reminderVars, cacheVars, section_assignments, system_settings,
                   partition, assign_response, reorganize_response>>

NewStudent(first_name, last_name, average_marks, class_id) ==
    [first_name |-> first_name, last_name |-> last_name,
     average_marks |-> average_marks, class_id |-> class_id,
     status |-> "active", computed_section |-> ""]

\* A class of three with two students of the same name and, for merit, the
\* same marks, next to a student of another class.
SmallRoster ==
    <<NewStudent("Ravi", "Rao", {80}, 1),
      NewStudent("Asha", "Rao", {}, 1),
      NewStudent("Asha", "Rao", {0}, 1),
      NewStudent("Ravi", "Das", {50}, 2)>>

\* A class of 27: more sections than letters when every section holds one.
LargeClassSize == 27

LargeRoster ==
    [i \in 1..LargeClassSize |->
        NewStudent(IF i % 2 = 1 THEN "Asha" ELSE "Ravi", "Rao", {}, 1)]

Rosters == {SmallRoster, LargeRoster}

InitBatchFrom(rosters) ==
    /\ students \in rosters
    /\ section_assignments = <<>>
    /\ system_settings = {}
    /\ partition = NoPartition
    /\ assign_response = NoResponse
    /\ reorganize_response = NoReorganization

(***************************************************************************)
(* AnalyticsService.get_at_risk_students: the score of one student         *)
(***************************************************************************)
\* An optional number is {} (None) or {v}; Python takes None and 0 for false.
Truthy(opt) == opt # {} /\ opt # {0}
ValueOf(opt) == CHOOSE v \in opt : TRUE

\* The loop body for one student: attendance_percentage and average_marks are
\* optional numbers, overdue_fees the number of pending or partial fees past
\* their due date, recent_payments whether a payment of the last 90 days
\* exists, unresponded_reminders the number of reminders without a payment.
risk_score(student, threshold_attendance, threshold_payment_delays) ==
    (IF /\ Truthy(student.attendance_percentage)
        /\ ValueOf(student.attendance_percentage) < threshold_attendance
     THEN 30 ELSE 0)
    + (IF student.overdue_fees >= threshold_payment_delays THEN 25 ELSE 0)
    + (IF ~student.recent_payments /\ student.overdue_fees > 0 THEN 20 ELSE 0)
    + (IF student.unresponded_reminders >= 3 THEN 15 ELSE 0)
    + (IF /\ Truthy(student.average_marks)
          /\ ValueOf(student.average_marks) < 40
       THEN 10 ELSE 0)

risk_level(score) ==
    IF score >= 60 THEN "Critical" ELSE IF score >= 40 THEN "High" ELSE "Medium"

\* The students scored: attendance at and around 0 and the threshold.
AttendancePercentages == {0, 1, 74, 75, 100}
AttendanceThresholds == {75}
PaymentDelayThresholds == {2}

ScoredStudents ==
    [attendance_percentage : {{}} \cup {{a} : a \in AttendancePercentages},
     overdue_fees : 0..2,
     recent_payments : BOOLEAN,
     unresponded_reminders : {0, 3},
     average_marks : {{}, {0}, {39}, {40}}]

NoRisk == [scored |-> FALSE]

\* get_at_risk_students reaches the student in its loop.
ScoreStudent(student, threshold_attendance, threshold_payment_delays) ==
    /\ LET score == risk_score(student, threshold_attendance, threshold_payment_delays)
       IN risk' = [scored |-> TRUE,
                   student |-> student,
                   threshold_attendance |-> threshold_attendance,
                   threshold_payment_delays |-> threshold_payment_delays,
                   risk_score |-> score,
                   at_risk |-> score >= 25,
                   risk_level |-> risk_level(score)]
    /\ risk' # risk
    /\ UNCHANGED <<schedulerVars, now, reminderVars, cacheVars, batchVars, forecast>>

(***************************************************************************)
(* AnalyticsService.forecast_revenue                                       *)
(***************************************************************************)
RECURSIVE SumSeq(_)
SumSeq(q) == IF q = <<>> THEN 0 ELSE Head(q) + SumSeq(Tail(q))

\* The trend of a series that is taken from its first element on.
forecast_trend_from_two(monthly_collections) ==
    IF Len(monthly_collections) >= 2
    THEN LET mid_point == Len(monthly_collections) \div 2
             first == SubSeq(monthly_collections, 1, mid_point)
             second == SubSeq(monthly_collections, mid_point + 1, Len(monthly_collections))
         IN IF 10 * SumSeq(second) * Len(first) > 11 * SumSeq(first) * Len(second)
            THEN "increasing"
            ELSE IF 10 * SumSeq(second) * Len(first) < 9 * SumSeq(first) * Len(second)
            THEN "decreasing"
            ELSE "stable"
    ELSE "stable"

\* The trend of a non-empty series: the means of the halves are compared as
\* fractions, second_half_avg > first_half_avg * 1.1 being
\* 10 * sum(second) * len(first) > 11 * sum(first) * len(second).
forecast_trend(monthly_collections) ==
    IF Len(monthly_collections) >= 3
    THEN LET mid_point == Len(monthly_collections) \div 2
             first == SubSeq(monthly_collections, 1, mid_point)
             second == SubSeq(monthly_collections, mid_point + 1, Len(monthly_collections))
         IN IF 10 * SumSeq(second) * Len(first) > 11 * SumSeq(first) * Len(second)
            THEN "increasing"
            ELSE IF 10 * SumSeq(second) * Len(first) < 9 * SumSeq(first) * Len(second)
            THEN "decreasing"
            ELSE "stable"
    ELSE "stable"

\* trend_factor in percent.
trend_factor(trend) ==
    IF trend = "increasing" THEN 105 ELSE IF trend = "decreasing" THEN 95 ELSE 100

RECURSIVE Power(_, _)
Power(b, e) == IF e = 0 THEN 1 ELSE b * Power(b, e - 1)

\* What forecast_revenue returns for the series; the forecasted amount of
\* month i is kept as the fraction amount_times / 100^i.
forecast_revenue(monthly_collections, months_ahead) ==
    IF monthly_collections = <<>>
    THEN [forecast |-> <<>>, trend |-> "insufficient_data", confidence |-> "low"]
    ELSE LET trend == forecast_trend(monthly_collections)
             base_amount == monthly_collections[Len(monthly_collections)]
         IN [forecast |-> [i \in 1..months_ahead |->
                            [amount_times |-> base_amount * Power(trend_factor(trend), i),
                             confidence |-> IF i <= 2 THEN "medium" ELSE "low"]],
             trend |-> trend,
             confidence |-> IF Len(monthly_collections) >= 4 THEN "medium" ELSE "low"]

\* Monthly totals: a month 10%, 20% above and 20% below a month of 10.
MonthlyTotals == {8, 10, 11, 12}
MonthsAheadChoices == {3}

RECURSIVE SeqsUpTo(_, _)
SeqsUpTo(S, n) ==
    IF n = 0 THEN {<<>>}
    ELSE LET shorter == SeqsUpTo(S, n - 1)
         IN shorter \cup {Append(q, x) : q \in shorter, x \in S}

NoForecast == [done |-> FALSE]

\* GET /analytics/revenue-forecast over the payments of the series.
ForecastRevenue(monthly_collections, months_ahead) ==
    /\ forecast' = [done |-> TRUE,
                    monthly_collections |-> monthly_collections,
                    result |-> forecast_revenue(monthly_collections, months_ahead)]
    /\ forecast' # forecast
    /\ UNCHANGED <<schedulerVars, now, reminderVars, cacheVars, batchVars, risk>>

InitAnalytics == risk = NoRisk /\ forecast = NoForecast

(***************************************************************************)
(* automation_config: the rows an administrator may set                    *)
(***************************************************************************)
MaxReminderChoices == {1, 2, 3}
OverdueDaysChoices == {<<3, 7, 15>>, <<3, 7>>, <<5, 10>>}
DaysBeforeChoices == {1, 3}

ConfigChoices ==
    [fee_reminder_enabled : BOOLEAN,
     max_reminders_per_student : MaxReminderChoices,
     fee_reminder_days_before : DaysBeforeChoices,
     fee_reminder_overdue_days : OverdueDaysChoices]

\* An administrator switches the reminders on or off while the system runs;
\* the cap and the day offsets are whatever was configured before.
UpdateConfig(c) ==
    /\ c # config
    /\ c.max_reminders_per_student = config.max_reminders_per_student
    /\ c.fee_reminder_days_before = config.fee_reminder_days_before
    /\ c.fee_reminder_overdue_days = config.fee_reminder_overdue_days
    /\ config' = c
    /\ UNCHANGED <<schedulerVars, analyticsVars, now, fees, reminders, runs, lastTimerDay, cacheVars, batchVars, response>>

\* The clock advances between database round trips of the cache: a
\* cache_analytics call takes less than one tick.
Tick ==
    /\ now < MaxTime
    /\ \A w \in DOMAIN writers : writers[w].pc = "idle"
    /\ now' = now + 1
    /\ UNCHANGED <<schedulerVars, analyticsVars, reminderVars, cacheVars, batchVars>>

(***************************************************************************)
(* Initial states: two generated monthly fees of one student, the default  *)
(* configuration but for the cap and the offsets, an empty ledger, an      *)
(* empty cache.                                                            *)
(***************************************************************************)
PayAmounts == {2}

\* The configurations and fees the runs start from: the cap, the overdue
\* offsets, the due dates of fee 1 and fee 2 (day 0 is the first day), and
\* what was paid on fee 2 before.
Scenarios ==
    { <<2, <<3, 7, 15>>, 3, 0, 0>>,      \* an advance and a due reminder on day 0
      <<1, <<3, 7, 15>>, -3, 0, 1>>,     \* cap 1; overdue by 3 days; fee 2 partly paid
      <<2, <<3, 7, 15>>, -15, -7, 0>>,   \* overdue by 15 and by 7 days
      <<2, <<5, 10>>, -5, 0, 0>> }       \* offsets other than 3, 7, 15

\* A generated monthly fee (FeeService.generate_monthly_fees), after the
\* payments recorded on it so far.
NewFee(student_id, total_fee, due_date, amount_paid) ==
    update_payment_status(
        [student_id |-> student_id, total_fee |-> total_fee, amount_paid |-> amount_paid,
         amount_pending |-> total_fee, status |-> "pending", due_date |-> due_date])

OverlapScenarios ==
    { <<3, <<3, 7, 15>>, -3, 0, 2>> }    \* fee 1 overdue by 3 days; fee 2 paid

InitEngineWith(scenarios, days_before) ==
    /\ now = 0
    /\ \E sc \in scenarios :
        /\ fees = [f \in FeeIds |->
                    IF f = 1 THEN NewFee(1, 2, sc[3], 0) ELSE NewFee(1, 2, sc[4], sc[5])]
        /\ config = [fee_reminder_enabled |-> TRUE,
                     max_reminders_per_student |-> sc[1],
                     fee_reminder_days_before |-> days_before,
                     fee_reminder_overdue_days |-> sc[2]]
    /\ reminders = <<>>
    /\ runs = [r \in RunIds |-> IdleRun]
    /\ lastTimerDay = -1
    /\ response = NoResponse
    /\ cache = {}
    /\ nextCacheId = 1
    /\ writers = [w \in WriterIds |-> IdleWriter]

\* The default of fee_reminder_days_before is 3.
InitEngine(scenarios) == InitEngineWith(scenarios, 3)

\* The application is up: lifespan has started the scheduler.
InitStarted == automation_scheduler = start(NewScheduler)

InitFrom(scenarios) ==
    InitEngine(scenarios) /\ InitBatchFrom({SmallRoster}) /\ InitAnalytics /\ InitStarted

\* All interleavings of the runs, the payments, the switch and the clock,
\* from the scenario with the fewest reachable states.
Init == InitFrom(OverlapScenarios)

Next ==
    \/ \E r \in RunIds : StartRun(r)
    \/ \E r \in RunIds : CheckReminder(r)
    \/ \E r \in RunIds : SendReminder(r)
    \/ \E f \in FeeIds, a \in PayAmounts : RecordPayment(f, a)
    \/ \E c \in ConfigChoices : UpdateConfig(c)
    \/ Tick

Spec == Init /\ [][Next]_vars

\* Runs of the reminder job that do not overlap in time.
NoRunActive == \A r \in RunIds : ~Active(r)

StartRunAlone(r) == NoRunActive /\ StartRun(r)

NextSeq ==
    \/ \E r \in RunIds : StartRunAlone(r)
    \/ \E r \in RunIds : CheckReminder(r)
    \/ \E r \in RunIds : SendReminder(r)
    \/ \E f \in FeeIds, a \in PayAmounts : RecordPayment(f, a)
    \/ \E c \in ConfigChoices : UpdateConfig(c)
    \/ Tick

InitSeq == InitFrom(Scenarios)

SpecSeq == InitSeq /\ [][NextSeq]_vars

\* Non-overlapping runs over a fee that is reminded twice within two days:
\* with fee_reminder_days_before set to 1, in advance on day 0 and as due on
\* day 1. The cap is 1; fee 2 is paid.
CapScenarios ==
    { <<1, <<3, 7, 15>>, 1, 0, 2>> }

InitCap ==
    /\ InitEngineWith(CapScenarios, 1)
    /\ InitBatchFrom({SmallRoster})
    /\ InitAnalytics
    /\ InitStarted

SpecCap == InitCap /\ [][NextSeq]_vars

\* Non-overlapping runs together with mark_payment_received, the service
\* operation that reconciles the ledger of a fee. No handler in the
\* repository calls it; here its caller invokes it at any time.
NextHook ==
    \/ NextSeq
    \/ \E f \in FeeIds : MarkPaymentReceived(f)

HookScenarios ==
    { <<2, <<3, 7, 15>>, -15, -7, 0>> }  \* overdue by 15 and by 7 days

InitHook == InitFrom(HookScenarios)

SpecHook == InitHook /\ [][NextHook]_vars

CacheTick == now < MaxCacheTime /\ Tick

\* The result cache: puts by two callers, clear-cache, the sweep, the clock.
NextCache ==
    \/ \E w \in WriterIds, rt \in ReportTypes, ps \in ParameterSets,
          d \in Payloads, ttl \in TtlChoices :
            CacheAnalyticsSelect(w, rt, ps, d, ttl)
    \/ \E w \in WriterIds : CacheAnalyticsCommit(w)
    \/ \E rt \in ReportTypes \cup {""} : ClearAnalyticsCache(rt)
    \/ DailyCacheCleanup
    \/ CacheTick

SpecCache == Init /\ [][NextCache]_vars

\* Batch assignment: the partition applied to the classes as they are, the
\* assign-sections endpoint, the creation of the settings row and changes of
\* a student's status.
ClassIds == {1, 2}

NextBatch ==
    \/ \E class_id \in ClassIds, strategy \in Strategies, m \in BatchSizeChoices :
        \E order \in StoreOrders(ClassStudents(students, class_id)) :
            PartitionStudents(class_id, strategy, m, order)
    \/ \E class_id \in ClassIds, strategy \in Strategies \cup {""} :
        \E order \in StoreOrders(ClassStudents(students, class_id)) :
            AssignSections(class_id, strategy, order)
    \/ GetSystemSettings
    \/ \E id \in StatusChangeIds : ChangeStudentStatus(id)

InitBatch ==
    InitEngine(OverlapScenarios) /\ InitBatchFrom(Rosters) /\ InitAnalytics /\ InitStarted

SpecBatch == InitBatch /\ [][NextBatch]_vars

\* Reorganize-all next to the assign-sections endpoint, the creation of the
\* settings row and changes of any student's status.
NextReorg ==
    \/ \E class_order \in Perms(ClassIds) :
        \E orders \in [ClassIds -> UNION {StoreOrders(ClassStudents(students, c)) : c \in ClassIds}] :
            ReorganizeAll(class_order, orders)
    \/ \E class_id \in ClassIds, strategy \in Strategies \cup {""} :
        \E order \in StoreOrders(ClassStudents(students, class_id)) :
            AssignSections(class_id, strategy, order)
    \/ GetSystemSettings
    \/ \E id \in DOMAIN students : ChangeStudentStatus(id)

SpecReorg == Init /\ [][NextReorg]_vars

\* The scheduler from its construction on: start() and stop() in any order,
\* next to the runs, the payments, the switch and the clock.
InitScheduler ==
    /\ InitEngine(OverlapScenarios)
    /\ InitBatchFrom({SmallRoster})
    /\ InitAnalytics
    /\ automation_scheduler = NewScheduler

NextScheduler ==
    \/ SchedulerStart
    \/ SchedulerStop
    \/ Next

SpecScheduler == InitScheduler /\ [][NextScheduler]_vars

\* The risk scoring applied to students.
NextRisk ==
    \E student \in ScoredStudents, ta \in AttendanceThresholds, tp \in PaymentDelayThresholds :
        ScoreStudent(student, ta, tp)

SpecRisk == Init /\ [][NextRisk]_vars

\* The forecast applied to series of monthly totals.
NextForecast ==
    \E q \in SeqsUpTo(MonthlyTotals, MaxMonths), months_ahead \in MonthsAheadChoices :
        ForecastRevenue(q, months_ahead)

SpecForecast == Init /\ [][NextForecast]_vars

(***************************************************************************)
(* Properties of the reminder engine                                       *)
(***************************************************************************)
StudentOf(f) == fees[f].student_id

\* C1: for every obligation and every reminder kind, should_send_reminder is
\* not true when the ledger holds at least max_reminders_per_student records
\* of that (student, obligation), whatever their kinds and statuses.
C1_CapSuppresses ==
    \A f \in FeeIds, k \in ReminderTypes :
        CountReminders(reminders, StudentOf(f), f) >= config.max_reminders_per_student
            => ~should_send_reminder(reminders, config, now, StudentOf(f), f, k)

\* The cap alone decides: reminders are enabled, the count equals the cap and
\* no record of kind k is recent.
C1_Witness ==
    \E f \in FeeIds, k \in ReminderTypes :
        /\ config.fee_reminder_enabled
        /\ CountReminders(reminders, StudentOf(f), f) = config.max_reminders_per_student
        /\ RecentReminders(reminders, now, StudentOf(f), f, k) = {}
        /\ \E i \in DOMAIN reminders : reminders[i].sms_status = "failed"

\* C2: with runs that do not overlap, no two records of the same (student,
\* obligation, kind) have sent timestamps less than 2 days apart.
C2_NoCloseDuplicates ==
    \A i, j \in DOMAIN reminders :
        (/\ i < j
         /\ reminders[i].student_id = reminders[j].student_id
         /\ reminders[i].monthly_fee_id = reminders[j].monthly_fee_id
         /\ reminders[i].reminder_type = reminders[j].reminder_type)
            => reminders[j].sent_at - reminders[i].sent_at >= TwoDays

\* A later run reaches an obligation whose reminder of the same kind was sent
\* within the last 2 days, with reminders enabled and the cap not reached.
C2_Witness ==
    \E r \in RunIds :
        /\ runs[r].pc = "check"
        /\ LET item == runs[r].items[runs[r].i]
           IN /\ config.fee_reminder_enabled
              /\ CountReminders(reminders, item.student_id, item.fee)
                    < config.max_reminders_per_student
              /\ \E i \in RecentReminders(reminders, now, item.student_id,
                                          item.fee, item.reminder_type) :
                    /\ reminders[i].sms_status = "sent"
                    /\ reminders[i].sent_at < now

\* C3 as stated: a run of daily_fee_reminders does not start while another
\* run of it is in progress.
C3_NoOverlappingStart ==
    [][\A r \in RunIds :
        (~Active(r) /\ runs'[r].pc = "check")
            => \A q \in RunIds \ {r} : ~Active(q)]_vars

\* A step of a run's send: one record is appended, with the item's identity,
\* the time of the send and the status the run counted.
C4_SendStep ==
    \A r \in RunIds :
        (runs[r].pc = "send" /\ runs'[r] # runs[r])
            => /\ Len(reminders') = Len(reminders) + 1
               /\ SubSeq(reminders', 1, Len(reminders)) = reminders
               /\ LET rec == reminders'[Len(reminders')]
                      item == runs[r].items[runs[r].i]
                  IN /\ rec.monthly_fee_id = item.fee
                     /\ rec.student_id = item.student_id
                     /\ rec.reminder_type = item.reminder_type
                     /\ rec.sent_at = now
                     /\ rec.sms_status \in {"sent", "failed"}
                     /\ runs'[r].pc # "idle" =>
                            runs'[r].stats = CountSend(runs[r].stats, item.reminder_type,
                                                       rec.sms_status = "sent")

\* Failed records count in the cap check and in the 2-day check.
C4_FailedCount ==
    \A f \in FeeIds, k \in ReminderTypes :
        /\ (/\ \A i \in DOMAIN reminders :
                    reminders[i].monthly_fee_id = f => reminders[i].sms_status = "failed"
            /\ CountReminders(reminders, StudentOf(f), f) >= config.max_reminders_per_student)
                => ~should_send_reminder(reminders, config, now, StudentOf(f), f, k)
        /\ (\E i \in DOMAIN reminders :
                /\ reminders[i].monthly_fee_id = f
                /\ reminders[i].student_id = StudentOf(f)
                /\ reminders[i].reminder_type = k
                /\ reminders[i].sms_status = "failed"
                /\ reminders[i].sent_at >= now - TwoDays)
                => ~should_send_reminder(reminders, config, now, StudentOf(f), f, k)

\* C4: a send attempt appends exactly one record, with status sent or failed
\* as the transport reported, and leaves the earlier records alone; failed
\* records count in both throttle checks.
C4_FailedAttemptsRecorded == []C4_FailedCount /\ [][C4_SendStep]_vars

\* All records of an obligation are failed attempts and their count has
\* reached the cap.
C4_Witness ==
    \E f \in FeeIds :
        /\ config.fee_reminder_enabled
        /\ CountReminders(reminders, StudentOf(f), f) >= config.max_reminders_per_student
        /\ \A i \in DOMAIN reminders :
                reminders[i].monthly_fee_id = f => reminders[i].sms_status = "failed"

Eligible(f) ==
    fees[f].status \in {"pending", "partial"} /\ fees[f].amount_pending > 0

\* C5 as stated: when the timer fires, an obligation whose reminder failed the
\* day before, still eligible and below the cap, is among the obligations
\* the run attempts.
C5_RetriedNextDay ==
    [][lastTimerDay' # lastTimerDay =>
        \A f \in FeeIds :
            (/\ \E i \in DOMAIN reminders :
                    /\ reminders[i].monthly_fee_id = f
                    /\ reminders[i].sms_status = "failed"
                    /\ Today(reminders[i].sent_at) = Today(now) - 1
             /\ Eligible(f)
             /\ config.fee_reminder_enabled
             /\ CountReminders(reminders, StudentOf(f), f) < config.max_reminders_per_student)
                => \E j \in DOMAIN runs'["timer"].items : runs'["timer"].items[j].fee = f]_vars

\* C5: a failed attempt is in the ledger, and with runs that do not overlap no
\* record of the same (student, obligation, kind) is added until more than 2
\* days have passed since the failed attempt: the run one day later does not
\* attempt it again.
C5_FailedNotRetriedWithinTwoDays ==
    [][Len(reminders') > Len(reminders) =>
        LET rec == reminders'[Len(reminders')]
        IN \A i \in DOMAIN reminders :
            (/\ reminders[i].sms_status = "failed"
             /\ reminders[i].student_id = rec.student_id
             /\ reminders[i].monthly_fee_id = rec.monthly_fee_id
             /\ reminders[i].reminder_type = rec.reminder_type)
                => /\ reminders'[i] = reminders[i]
                   /\ rec.sent_at - reminders[i].sent_at > TwoDays]_vars

\* The timer has fired on the day after a failed attempt for an obligation
\* that is still eligible and below the cap, and nothing was sent for it.
C5_Witness ==
    /\ lastTimerDay = Today(now)
    /\ config.fee_reminder_enabled
    /\ \E f \in FeeIds :
        /\ Eligible(f)
        /\ CountReminders(reminders, StudentOf(f), f) < config.max_reminders_per_student
        /\ \E i \in DOMAIN reminders :
                /\ reminders[i].monthly_fee_id = f
                /\ reminders[i].sms_status = "failed"
                /\ Today(reminders[i].sent_at) = Today(now) - 1
        /\ \A i \in DOMAIN reminders :
                reminders[i].monthly_fee_id = f => Today(reminders[i].sent_at) < Today(now)
        /\ \A r \in RunIds : ~Active(r)

LargestOffset(cfg) ==
    CHOOSE n \in Range(cfg.fee_reminder_overdue_days) :
        \A m \in Range(cfg.fee_reminder_overdue_days) : m <= n

\* C6 as stated: a run that starts processes every eligible obligation due
\* today - k, for every configured overdue offset k, as overdue, and as final
\* for the largest configured offset.
C6_EveryOffsetProcessed ==
    [][\A r \in RunIds :
        (runs[r].pc = "idle" /\ runs'[r].pc = "check") =>
            \A f \in FeeIds, n \in Range(config.fee_reminder_overdue_days) :
                (Eligible(f) /\ fees[f].due_date = Today(now) - n) =>
                    \E j \in DOMAIN runs'[r].items :
                        /\ runs'[r].items[j].fee = f
                        /\ runs'[r].items[j].reminder_type =
                              IF n = LargestOffset(config) THEN "final" ELSE "overdue"]_vars

\* C7 as stated: a record is added only for an obligation that is pending or
\* partial with a pending amount > 0 at the time of the send.
C7_OnlyEligibleReminded ==
    [][Len(reminders') > Len(reminders) =>
        LET rec == reminders'[Len(reminders')]
        IN /\ fees[rec.monthly_fee_id].status \in {"pending", "partial"}
           /\ fees[rec.monthly_fee_id].amount_pending > 0]_vars

\* C8 as stated: once a payment is recorded against an obligation, none of its
\* records is left with the payment-received-after flag unset, and each has
\* its days-to-payment.
C8_PaymentReconcilesLedger ==
    [][\A f \in FeeIds :
        fees'[f].amount_paid # fees[f].amount_paid =>
            \A i \in DOMAIN reminders' :
                reminders'[i].monthly_fee_id = f =>
                    /\ reminders'[i].payment_received_after = TRUE
                    /\ reminders'[i].days_to_payment # {}]_vars

(***************************************************************************)
(* Properties of the reminder statistics and of the result cache           *)
(***************************************************************************)
\* C9 as stated: the effectiveness rate is payment-after-count / total, a
\* value in [0, 1], and 0 when the ledger is empty.
C9_RateIsFraction ==
    LET stats == get_reminder_stats(reminders)
        rate == stats.effectiveness_rate
    IN /\ rate.den > 0
       /\ rate.num * Len(reminders) = PaymentAfterReminder(reminders) * rate.den
       /\ 0 <= rate.num /\ rate.num <= rate.den
       /\ Len(reminders) = 0 => rate.num = 0

\* C9: the effectiveness rate is the percentage 100 * payment-after-count /
\* total, a value in [0, 100], and 0 when the ledger is empty.
C9_RateIsPercentage ==
    LET stats == get_reminder_stats(reminders)
        rate == stats.effectiveness_rate
    IN /\ stats.total_reminders = Len(reminders)
       /\ stats.payment_after_reminder = PaymentAfterReminder(reminders)
       /\ rate.den > 0
       /\ rate.num * Len(reminders) = 100 * PaymentAfterReminder(reminders) * rate.den
       /\ 0 <= rate.num /\ rate.num <= 100 * rate.den
       /\ Len(reminders) = 0 => rate.num = 0

\* Some but not all reminders of the ledger were followed by a payment.
C9_Witness ==
    /\ PaymentAfterReminder(reminders) >= 1
    /\ PaymentAfterReminder(reminders) < Len(reminders)
    /\ get_reminder_stats(reminders).effectiveness_rate.num = 100 * PaymentAfterReminder(reminders)

\* A cache_analytics call of writer w with a positive ttl commits in this step.
PutCompletes(w) ==
    /\ writers[w].pc = "selected"
    /\ writers'[w].pc = "idle"
    /\ writers[w].ttl_seconds > 0
    /\ CommitSucceeds(w)

\* C10 as stated: a put with a positive ttl followed immediately by a get of
\* the same identity returns exactly the payload passed to the put.
C10_GetReturnsPayload ==
    [][\A w \in WriterIds :
        PutCompletes(w) =>
            get_cached_analytics(cache', now', writers[w].report_type,
                                 writers[w].parameters) = {writers[w].result_data}]_vars

\* C10: a put with a positive ttl followed immediately by a get of the same
\* identity returns the payload passed to the put with every Decimal in it
\* converted to a float, whether the put inserted the entry or overwrote a
\* live or an expired one.
C10_GetReturnsConvertedPayload ==
    [][\A w \in WriterIds :
        PutCompletes(w) =>
            LET got == get_cached_analytics(cache', now', writers[w].report_type,
                                            writers[w].parameters)
            IN /\ got = {convert_decimals_to_float(writers[w].result_data)}
               /\ \A d \in got : convert_decimals_to_float(d) = d]_vars

\* An entry that was overwritten in this tick (it is older than an entry
\* stored before this tick) is live and holds a converted payload that
\* differs from a payload with Decimals.
C10_Witness ==
    \E row, other \in cache :
        /\ row.id < other.id
        /\ other.computed_at < now
        /\ row.computed_at = now
        /\ row.expires_at > now
        /\ get_cached_analytics(cache, now, row.report_type, row.parameters)
                = {row.result_data}
        /\ \E d \in Payloads :
                d # row.result_data /\ convert_decimals_to_float(d) = row.result_data

\* C11: get returns a miss for an identity whose entry has expires_at <= now,
\* though the entry is still in the table; what it returns is the payload of
\* an entry with exactly that identity whose expiry is strictly in the future.
C11_ExpiredIsMiss ==
    \A rt \in ReportTypes, ps \in ParameterSets :
        LET got == get_cached_analytics(cache, now, rt, ps)
        IN /\ (\E row \in cache :
                    /\ row.report_type = rt /\ row.parameters = ps
                    /\ row.expires_at <= now) => got = {}
           /\ \A d \in got :
                \E row \in cache :
                    /\ row.report_type = rt /\ row.parameters = ps
                    /\ row.expires_at > now
                    /\ row.result_data = d
           /\ Cardinality(got) <= 1

\* An entry whose expiry is exactly now and an entry of another identity that
\* is live are both in the table.
C11_Witness ==
    \E row, other \in cache :
        /\ row.expires_at = now
        /\ row.computed_at < now
        /\ other.expires_at > now
        /\ <<other.report_type, other.parameters>> # <<row.report_type, row.parameters>>
        /\ get_cached_analytics(cache, now, row.report_type, row.parameters) = {}
        /\ get_cached_analytics(cache, now, other.report_type, other.parameters)
                = {other.result_data}

\* At most one entry per identity.
C12_Unique ==
    \A r1, r2 \in cache :
        (r1.report_type = r2.report_type /\ r1.parameters = r2.parameters) => r1 = r2

\* A put that found an entry of its identity leaves the set of entries as it
\* was but for that entry's payload and timestamps.
C12_PutStep ==
    \A w \in WriterIds :
        (writers[w].pc = "selected" /\ writers'[w].pc = "idle" /\ writers[w].found # 0)
            => /\ {row.id : row \in cache'} = {row.id : row \in cache}
               /\ \A row \in cache : \E new \in cache' :
                    /\ new.id = row.id
                    /\ new.report_type = row.report_type
                    /\ new.parameters = row.parameters
                    /\ row.id # writers[w].found => new = row

\* C12: after any sequence of puts, invalidations and sweeps the cache holds
\* at most one entry per identity; a put on an existing identity, live or
\* expired, updates that entry and adds none.
C12_OneEntryPerIdentity == []C12_Unique /\ [][C12_PutStep]_vars

\* Two inserts were made, the older entry was overwritten in this tick, and
\* the table holds two entries.
C12_Witness ==
    /\ nextCacheId = 3
    /\ Cardinality(cache) = 2
    /\ \E row, other \in cache :
        /\ row.id < other.id
        /\ other.computed_at < now
        /\ row.computed_at = now

\* What invalidate does to the table as it is: with a kind, the entries of
\* that kind go and every other entry stays as it is; with none, all go.
C13_InvalidateEffect ==
    /\ \A rt \in ReportTypes :
        LET after == ClearedCache(cache, rt)
        IN /\ after \subseteq cache
           /\ \A row \in cache : row \in after <=> row.report_type # rt
    /\ ClearedCache(cache, "") = {}

\* A step that removes entries and is not the sweep is an invalidation with
\* that effect.
C13_InvalidateStep ==
    (writers' = writers /\ cache' # cache /\ cache' # {row \in cache : row.expires_at >= now})
        => \/ cache' = {}
           \/ \E rt \in ReportTypes :
                /\ \A row \in cache' : row.report_type # rt
                /\ \A row \in cache : row.report_type # rt => row \in cache'
                /\ cache' \subseteq cache

\* C13: invalidate(kind) deletes exactly the entries whose report kind is kind
\* and leaves the entries of other kinds unchanged; with no kind it deletes
\* all entries.
C13_InvalidateExactlyKind == []C13_InvalidateEffect /\ [][C13_InvalidateStep]_vars

\* Before any sweep could delete, two entries were inserted and only an
\* entry of kind collection_trends is left, live.
C13_Witness ==
    /\ now = 0
    /\ nextCacheId = 3
    /\ Cardinality(cache) = 1
    /\ \A row \in cache : row.report_type = "collection_trends" /\ row.expires_at > now
    /\ \A w \in WriterIds : writers[w].pc = "idle"

\* C14: the sweep deletes only entries whose expiry has passed, none that get
\* would return, and get returns the same for every identity whether or not
\* the sweep ran just before it.
C14_SweepInvisibleToGet ==
    LET swept == SweptCache(cache, now)
    IN /\ swept \subseteq cache
       /\ \A row \in cache \ swept :
            /\ row.expires_at < now
            /\ row.result_data \notin
                    get_cached_analytics(cache, now, row.report_type, row.parameters)
       /\ \A rt \in ReportTypes, ps \in ParameterSets :
            get_cached_analytics(swept, now, rt, ps)
                = get_cached_analytics(cache, now, rt, ps)

\* The table holds an entry the sweep deletes and a live entry.
C14_Witness ==
    /\ SweptCache(cache, now) # cache
    /\ \E row \in SweptCache(cache, now) :
            get_cached_analytics(cache, now, row.report_type, row.parameters)
                = {row.result_data}

(***************************************************************************)
(* Section assignment                                                      *)
(***************************************************************************)
\* The least k with k * m >= n.
CeilDiv(n, m) == CHOOSE k \in 0..n : k * m >= n /\ (k = 0 \/ (k - 1) * m < n)

SectionSize(recs, section) ==
    Cardinality({i \in DOMAIN recs : recs[i].assigned_section = section})

C16_RerunKeepsSections ==
    \A order \in StoreOrders(ClassStudents(students, partition.class_id)) :
        Range(order) = DOMAIN partition.sections =>
            ComputedSections(order, students, partition.strategy, partition.max_batch_size)
                = partition.sections

Letters == {Chr(CodeOfA + i) : i \in 0..25}

\* C17: with more than 26 sections every student of section index 26 or more
\* is assigned the label Z, so every label given out is one of A..Z.
C17_LabelsAreLetters ==
    /\ \A i \in DOMAIN partition.added :
            partition.added[i].assigned_section \in Letters
    /\ \A id \in DOMAIN partition.sections :
            partition.sections[id] \in Letters

\* The records a step appended to the history.
AppendedRecords ==
    SubSeq(section_assignments', Len(section_assignments) + 1, Len(section_assignments'))

\* The positions of the history records of a student after the step.
RecordsOf(id) ==
    {i \in DOMAIN section_assignments' : section_assignments'[i].student_id = id}

\* A call of the assign-sections endpoint for the class keeps every earlier
\* record, appends one record for each active student of the class and for
\* nobody else, and leaves each of them in the section of its latest record.
C18_RunFor(class_id) ==
    /\ Len(section_assignments') >= Len(section_assignments)
    /\ SubSeq(section_assignments', 1, Len(section_assignments)) = section_assignments
    /\ \A i \in DOMAIN AppendedRecords : AppendedRecords[i].class_id = class_id
    /\ \A id \in DOMAIN students :
            Cardinality({i \in DOMAIN AppendedRecords : AppendedRecords[i].student_id = id})
                = IF id \in ClassStudents(students, class_id) THEN 1 ELSE 0
    /\ \A id \in ClassStudents(students, class_id) :
            \E i \in RecordsOf(id) :
                /\ \A j \in RecordsOf(id) : j <= i
                /\ students'[id].computed_section = section_assignments'[i].assigned_section

\* C18: the history is append-only and agrees with the section field: a run
\* appends exactly one record for each active student of the class and changes
\* or deletes no earlier record, and after any sequence of runs the section
\* field of each such student is the section of its latest history record.
C18_RunAppendsOnePerStudent ==
    [][assign_response' # assign_response => \E class_id \in ClassIds : C18_RunFor(class_id)]_vars

(***************************************************************************)
(* Manual trigger                                                          *)
(***************************************************************************)
\* The step ends the triggered run of daily_fee_reminders.
TriggerEnds == Active("trigger") /\ ~Active("trigger")'

\* The body of the triggered run fails in this step.
TriggerBodyRaises ==
    LET run == runs["trigger"]
        item == run.items[run.i]
    IN /\ run.pc = "check"
       /\ should_send_raises(reminders, config, now,
                             item.student_id, item.fee, item.reminder_type)

\* The summary process_automated_reminders returns when the run ends in this
\* step without a failure.
TriggerSummary ==
    LET run == runs["trigger"]
        item == run.items[run.i]
    IN IF run.pc = "check"
       THEN [run.stats EXCEPT !.total_processed = @ + 1]
       ELSE CountSend(run.stats, item.reminder_type,
                      reminders'[Len(reminders')].sms_status = "sent")

\* C19: trigger(job_id) runs the same job body as the timer, synchronously,
\* and returns the run summary (the counts and the breakdown by tier) of that
\* run.
C19_TriggerReturnsSummary ==
    [][(TriggerEnds /\ ~TriggerBodyRaises) =>
            /\ response'.status_code = 200
            /\ response'.body = TriggerSummary]_vars

\* C20: a manually triggered job either completes and returns its summary or
\* raises; a failure inside the job body is never reported as a successful
\* run.
C20_FailureNotReportedAsSuccess ==
    [][(TriggerEnds /\ TriggerBodyRaises) => response'.status_code # 200]_vars

(***************************************************************************)
(* Risk score                                                              *)
(***************************************************************************)
\* The score of the scored student had its attendance been a.
ScoreWithAttendance(opt) ==
    risk_score([risk.student EXCEPT !.attendance_percentage = opt],
               risk.threshold_attendance, risk.threshold_payment_delays)

\* C21: with the other inputs of a student fixed the score does not decrease
\* as the attendance decreases: for a1 <= a2 in 0..100, a1 = 0 included,
\* score(a1) >= score(a2), and every attendance below the threshold
\* contributes the low-attendance weight of 30.
C21_MonotoneInAttendance ==
    (risk.scored /\ risk.student.attendance_percentage # {}) =>
        LET a2 == ValueOf(risk.student.attendance_percentage)
        IN /\ \A a1 \in AttendancePercentages :
                a1 <= a2 => ScoreWithAttendance({a1}) >= risk.risk_score
           /\ a2 < risk.threshold_attendance =>
                risk.risk_score = ScoreWithAttendance({}) + 30

(***************************************************************************)
(* Revenue forecast                                                        *)
(***************************************************************************)
\* The trend the comparison of the halves gives: the second half's mean more
\* than 10% above the first half's, more than 10% below it, or neither.
HalvesTrend(q) ==
    LET mid == Len(q) \div 2
        n1 == mid
        n2 == Len(q) - mid
        s1 == SumSeq(SubSeq(q, 1, mid))
        s2 == SumSeq(SubSeq(q, mid + 1, Len(q)))
    IN IF 10 * s2 * n1 > 11 * s1 * n2 THEN "increasing"
       ELSE IF 10 * s2 * n1 < 9 * s1 * n2 THEN "decreasing"
       ELSE "stable"

\* The claim as stated: every series of one month or more gets the trend of
\* its halves, and only the empty series the insufficient-data result.
C22_TrendOfEverySeries ==
    forecast.done =>
        IF forecast.monthly_collections = <<>>
        THEN /\ forecast.result.trend = "insufficient_data"
             /\ forecast.result.forecast = <<>>
        ELSE /\ forecast.result.trend = HalvesTrend(forecast.monthly_collections)
             /\ forecast.result.forecast # <<>>

\* C22: for every monthly payment series of three months or more the trend is
\* increasing when the mean of the second half exceeds the mean of the first
\* half by more than 10%, decreasing when it is more than 10% lower, and
\* stable otherwise; a series of one or two months is stable; only an empty
\* series yields the insufficient-data result with an empty forecast list.
C22_TrendFromThreeMonths ==
    forecast.done =>
        IF forecast.monthly_collections = <<>>
        THEN /\ forecast.result.trend = "insufficient_data"
             /\ forecast.result.forecast = <<>>
        ELSE /\ forecast.result.forecast # <<>>
             /\ forecast.result.trend =
                    IF Len(forecast.monthly_collections) >= 3
                    THEN HalvesTrend(forecast.monthly_collections)
                    ELSE "stable"

\* A series of two months, the second more than 10% above the first, was
\* forecast as stable.
C22_Witness ==
    /\ forecast.done
    /\ Len(forecast.monthly_collections) = 2
    /\ HalvesTrend(forecast.monthly_collections) = "increasing"
    /\ forecast.result.trend = "stable"

(***************************************************************************)
(* Concurrency of the reminder runs                                        *)
(***************************************************************************)
\* C23: the throttle's check-then-act is atomic per obligation: while a run
\* has passed should_send_reminder for an obligation and has not yet written
\* its record, no other run writes a record for the same obligation.
C23_CheckThenActAtomic ==
    [][\A r \in RunIds :
        (/\ runs[r].pc = "send"
         /\ Len(reminders') = Len(reminders) + 1
         /\ reminders'[Len(reminders')].monthly_fee_id = runs[r].items[runs[r].i].fee)
            => runs'[r] # runs[r]]_vars

(***************************************************************************)
(* Concurrent puts to the cache                                            *)
(***************************************************************************)
\* C24: for every interleaving of two concurrent puts to the same cache
\* identity both puts complete without error: the commit of a put that found
\* no entry of its identity goes through, also when another put has stored
\* an entry of that identity since, and the table then holds one entry of
\* the identity.
C24_ConcurrentPutsComplete ==
    [][\A w \in WriterIds :
        (writers[w].pc = "selected" /\ writers'[w].pc = "idle" /\ writers[w].found = 0)
            => /\ CommitSucceeds(w)
               /\ Cardinality(CacheRows(cache', writers[w].report_type,
                                        writers[w].parameters)) = 1]_vars

(***************************************************************************)
(* Settings during a run                                                   *)
(***************************************************************************)
\* C25: every throttle decision of a run uses the fee_reminder_enabled and
\* max_reminders_per_student values as they were when the run began: the
\* loop goes on to send exactly when should_send_reminder holds of those
\* values.
C25_SettingsReadAtRunStart ==
    [][\A r \in RunIds :
        (runs[r].pc = "check" /\ runs'[r] # runs[r])
            => LET item == runs[r].items[runs[r].i]
               IN \A cfg \in runs[r].started_with :
                    ~should_send_raises(reminders, cfg, now,
                                        item.student_id, item.fee, item.reminder_type)
                        => (runs'[r].pc = "send"
                                <=> should_send_reminder(reminders, cfg, now, item.student_id,
                                                         item.fee, item.reminder_type))]_vars

(***************************************************************************)
(* Reorganize all                                                          *)
(***************************************************************************)
\* A reorganize-all that failed at a class: the history it found is kept,
\* each student of a class processed before the failing one has one record
\* appended, and the failing class has none appended and its students'
\* section fields are as they were. (In the code as it is, a class whose call
\* returns is a class without active students: with students the call raises
\* at the UPDATE of lines 138-142.)
C26_FailedReorganization ==
    (reorganize_response' # reorganize_response /\ reorganize_response'.failed # {})
        => /\ Len(section_assignments') >= Len(section_assignments)
           /\ SubSeq(section_assignments', 1, Len(section_assignments)) = section_assignments
           /\ \A k \in DOMAIN reorganize_response'.processed :
                \A id \in ClassStudents(students, reorganize_response'.processed[k]) :
                    Cardinality({i \in DOMAIN AppendedRecords :
                                    AppendedRecords[i].student_id = id}) = 1
           /\ \A c \in reorganize_response'.failed :
                /\ \A i \in DOMAIN AppendedRecords : AppendedRecords[i].class_id # c
                /\ \A id \in ClassStudents(students, c) : students'[id] = students[id]

C27_LedgerWithinCap ==
    \A f \in FeeIds :
        CountReminders(reminders, StudentOf(f), f) <= config.max_reminders_per_student

\* A run reaches an obligation that has as many records as the cap allows and
\* no recent record of the kind the run would send, with reminders enabled.
C27_Witness ==
    \E r \in RunIds :
        /\ runs[r].pc = "check"
        /\ LET item == runs[r].items[runs[r].i]
           IN /\ config.fee_reminder_enabled
              /\ CountReminders(reminders, item.student_id, item.fee)
                    = config.max_reminders_per_student
              /\ RecentReminders(reminders, now, item.student_id, item.fee,
                                 item.reminder_type) = {}

(***************************************************************************)
(* The summary of a run                                                    *)
(***************************************************************************)
\* The step ends run r with `return stats`.
RunCompletes(r) ==
    /\ Active(r)
    /\ ~Active(r)'
    /\ LET item == runs[r].items[runs[r].i]
       IN ~(/\ runs[r].pc = "check"
            /\ should_send_raises(reminders, config, now,
                                  item.student_id, item.fee, item.reminder_type))

\* The stats dict the run returns in the step that ends it.
SummaryOf(r) ==
    LET run == runs[r]
        item == run.items[run.i]
    IN IF run.pc = "check"
       THEN [run.stats EXCEPT !.total_processed = @ + 1]
       ELSE CountSend(run.stats, item.reminder_type,
                      reminders'[Len(reminders')].sms_status = "sent")

\* The records the run has committed when it ends, by status.
CreatedBy(r) == Created(runs[r].created, reminders, reminders')

SumByType(stats) ==
    stats.by_type["advance"] + stats.by_type["due"]
        + stats.by_type["overdue"] + stats.by_type["final"]

\* C28: the summary of a completed run is consistent: reminders_sent is the
\* sum of the by_type counts; reminders_sent and reminders_failed are the
\* numbers of records the run created with status sent and failed; their sum
\* is at most total_processed.
C28_SummaryConsistent ==
    [][\A r \in RunIds :
        RunCompletes(r) =>
            LET stats == SummaryOf(r)
                created == CreatedBy(r)
            IN /\ stats.reminders_sent = SumByType(stats)
               /\ stats.reminders_sent = created.sent
               /\ stats.reminders_failed = created.failed
               /\ created.sent + created.failed <= stats.total_processed]_vars

\* A run that has created a failed record for an earlier obligation is at the
\* send of its last obligation.
C28_Witness ==
    \E r \in RunIds :
        /\ runs[r].pc = "send"
        /\ runs[r].i = Len(runs[r].items)
        /\ runs[r].i > 1
        /\ runs[r].created.failed = 1
        /\ runs[r].stats.reminders_failed = 1

(***************************************************************************)
(* Reconciliation of the ledger                                            *)
(***************************************************************************)
\* The step changes a record the ledger holds.
ChangesARecord ==
    \E i \in DOMAIN reminders : i \notin DOMAIN reminders' \/ reminders'[i] # reminders[i]

\* The step is a reconciliation of obligation f: the records of f with the
\* flag unset get the flag and the days since their send, and every other
\* record, and every other field, is as it was.
ReconciledOnly(f) ==
    /\ DOMAIN reminders' = DOMAIN reminders
    /\ \A i \in DOMAIN reminders :
        LET rec == reminders[i]
        IN IF rec.monthly_fee_id = f /\ rec.payment_received_after = FALSE
           THEN /\ reminders'[i].payment_received_after = TRUE
                /\ reminders'[i].days_to_payment = {(now - rec.sent_at) \div TicksPerDay}
                /\ [reminders'[i] EXCEPT !.payment_received_after = FALSE,
                                         !.days_to_payment = rec.days_to_payment] = rec
           ELSE reminders'[i] = rec
    /\ UNCHANGED <<now, fees, config, runs, lastTimerDay, response, cacheVars, batchVars,
                   analyticsVars, schedulerVars>>

\* C29: mark_payment_received(f) changes only payment_received_after and
\* days_to_payment of the records of obligation f whose flag was unset; every
\* other record, field and obligation is unchanged; a record once reconciled
\* keeps its days_to_payment when the obligation is reconciled again.
C29_ReconcileChangesOnlyUnflagged ==
    [][/\ ChangesARecord => \E f \in FeeIds : ReconciledOnly(f)
       /\ \A i \in DOMAIN reminders :
            reminders[i].payment_received_after = TRUE => reminders'[i] = reminders[i]]_vars

\* A record was reconciled on an earlier day than today, so that a
\* reconciliation now would compute another days_to_payment; a record of
\* another obligation is not reconciled.
C29_Witness ==
    \E i, j \in DOMAIN reminders :
        /\ reminders[i].payment_received_after = TRUE
        /\ \E d \in reminders[i].days_to_payment :
                d < (now - reminders[i].sent_at) \div TicksPerDay
        /\ reminders[j].monthly_fee_id # reminders[i].monthly_fee_id
        /\ reminders[j].payment_received_after = FALSE

(***************************************************************************)
(* The scheduler's life cycle                                              *)
(***************************************************************************)
\* What holds of the instance between calls: the flag agrees with the
\* scheduler's state, no two jobs have the same id, a running scheduler holds
\* the five jobs, and start() on a running and stop() on a stopped instance
\* change nothing.
C30_SchedulerState ==
    LET s == automation_scheduler
    IN /\ s.is_running <=> s.state = "running"
       /\ \A i, j \in DOMAIN s.jobs : s.jobs[i] = s.jobs[j] => i = j
       /\ s.is_running => Range(s.jobs) = Range(JobIds)
       /\ s.is_running => start(s) = s
       /\ ~s.is_running => \A kept \in BOOLEAN : stop(s, kept) = s

\* The instance changes only by a start() that sets the flag or a stop() that
\* clears it.
C30_SchedulerStep ==
    LET s == automation_scheduler
    IN s' # s =>
        /\ s'.is_running # s.is_running
        /\ s'.is_running => s' = start(s)
        /\ ~s'.is_running => \E kept \in BOOLEAN : s' = stop(s, kept)

\* C30: after any sequence of start() and stop() calls is_running is true
\* exactly when the last effective call was start(); start() while running and
\* stop() while stopped change nothing; the job registry never holds two jobs
\* with the same id.
C30_StartStopIdempotent == []C30_SchedulerState /\ [][C30_SchedulerStep]_vars

\* The scheduler was started, its timer fired the reminders job, and it was
\* stopped with the five jobs still in its store, where the next start() adds
\* them again.
C30_Witness ==
    /\ ~automation_scheduler.is_running
    /\ Len(automation_scheduler.jobs) = Len(JobIds)
    /\ lastTimerDay = 0

====
